---- MODULE Spec2Model ----
(***************************************************************************)
(* Model of the eDNA species classifier repository.                        *)
(*                                                                         *)
(* The repository's executable code is the React dashboard (frontend/);    *)
(* the training and inference pipelines, the job coordinator, the result   *)
(* cache and the model packager are described in backend/docs as planned   *)
(* and have no implementation in the repository.  This module models the   *)
(* SubmitData wizard of frontend/src/pages/SubmitData.jsx (Spec) and the   *)
(* ClusterDetail page with the data hooks and mock data it reads           *)
(* (DataSpec).  The router mounts one page at a time, so each              *)
(* specification leaves the other page's state at its initial value.       *)
(***************************************************************************)
EXTENDS Integers, FiniteSets, Sequences, TLC

\* ---------------------------------------------------------------- bounds

\* Number of 200 ms timer periods the model lets pass during one submission
\* beyond the 3000 ms completion timeout.
MaxSlack == 1

\* ------------------------------------------------------ program constants

FirstStep == 1
LastStep == 4
ProgressIncrement == 10
ProgressFull == 100
\* setTimeout(..., 3000) against setInterval(..., 200): 15 interval periods
SubmitTimeoutTicks == 15
\* Table: pageSize = 10 by default
DefaultPageSize == 10

\* ----------------------------------------------------------- form fields

\* Text inputs bound with handleInputChange that validateStep requires.
RequiredText == {"researcherName", "email", "institution",
                 "sampleName", "collectionDate", "location", "targetGene"}
\* One representative of the optional text inputs (phone, orcid, depth, ...).
OptionalText == {"phone"}
TextFields == RequiredText \cup OptionalText
\* File inputs bound with handleFileChange.
FileFields == {"sequenceFile"}
\* Keys that validateStep can put into the errors object.
ErrorFields == RequiredText \cup FileFields \cup {"permissions"}

\* Values a text input can hold; "" is the initial, falsy value.
TextValues == {"", "a"}
\* e.target.files[0]: null initially, a File, or undefined when the chooser
\* is dismissed with no file.
FileValues == {"null", "file", "undefined"}

\* JavaScript truthiness of a form value as used by `!formData.x`.
Truthy(v) == v \notin {"", "null", "undefined"}

\* The step whose content (renderStepContent) renders the field's input.
StepOf(f) ==
    CASE f \in {"researcherName", "email", "phone", "institution"} -> 1
      [] f \in {"sampleName", "collectionDate", "location"} -> 2
      [] f \in {"targetGene", "sequenceFile"} -> 3
      [] OTHER -> 4

\* The message validateStep stores for a missing field.
Msg(f) ==
    CASE f = "researcherName" -> "Name is required"
      [] f = "email" -> "Email is required"
      [] f = "institution" -> "Institution is required"
      [] f = "sampleName" -> "Sample name is required"
      [] f = "collectionDate" -> "Collection date is required"
      [] f = "location" -> "Location is required"
      [] f = "sequenceFile" -> "Sequence file is required"
      [] f = "targetGene" -> "Target gene is required"
      [] OTHER -> "Permission confirmation is required"

VARIABLES
    currentStep,     \* useState(1)
    formData,        \* text and file fields of the form state
    permissions,     \* formData.permissions (checkbox)
    errors,          \* errors object: field -> message, "" when absent
    uploadProgress,  \* useState(0)
    isSubmitting,    \* useState(false)
    intervalOn,      \* the setInterval of handleSubmit is still scheduled
    timeoutOn,       \* the setTimeout of handleSubmit is still scheduled
    elapsed          \* timer periods since the last handleSubmit started

wizardVars == <<currentStep, formData, permissions, errors, uploadProgress,
                isSubmitting, intervalOn, timeoutOn, elapsed>>

\* ------------------------------------------------------------- mock data

\* mockSequences; novelty_score is kept in hundredths (0.2 is 20).
mockSequences == <<
    [id |-> "SEQ_001", cluster |-> "CL_01", length |-> 150, quality |-> 98,
     taxa |-> "Proteobacteria", novelty_score |-> 20],
    [id |-> "SEQ_002", cluster |-> "CL_02", length |-> 140, quality |-> 95,
     taxa |-> "Novel", novelty_score |-> 80],
    [id |-> "SEQ_003", cluster |-> "CL_01", length |-> 155, quality |-> 96,
     taxa |-> "Proteobacteria", novelty_score |-> 10],
    [id |-> "SEQ_004", cluster |-> "CL_03", length |-> 142, quality |-> 89,
     taxa |-> "Bacteroidetes", novelty_score |-> 30],
    [id |-> "SEQ_005", cluster |-> "CL_04", length |-> 148, quality |-> 92,
     taxa |-> "Novel", novelty_score |-> 90],
    [id |-> "SEQ_006", cluster |-> "CL_05", length |-> 138, quality |-> 87,
     taxa |-> "Firmicutes", novelty_score |-> 20],
    [id |-> "SEQ_007", cluster |-> "CL_02", length |-> 145, quality |-> 94,
     taxa |-> "Novel", novelty_score |-> 70],
    [id |-> "SEQ_008", cluster |-> "CL_06", length |-> 152, quality |-> 91,
     taxa |-> "Actinobacteria", novelty_score |-> 40],
    [id |-> "SEQ_009", cluster |-> "CL_07", length |-> 144, quality |-> 88,
     taxa |-> "Novel", novelty_score |-> 85],
    [id |-> "SEQ_010", cluster |-> "CL_08", length |-> 147, quality |-> 93,
     taxa |-> "Cyanobacteria", novelty_score |-> 10] >>

\* mockClusters; novelty_score in hundredths, sequences is the member list.
mockClusters == <<
    [id |-> "CL_01", sequence_count |-> 120, novelty_score |-> 20,
     dominant_taxa |-> "Proteobacteria", avg_quality |-> 97,
     sequences |-> <<"SEQ_001", "SEQ_003">>],
    [id |-> "CL_02", sequence_count |-> 85, novelty_score |-> 80,
     dominant_taxa |-> "Novel", avg_quality |-> 94,
     sequences |-> <<"SEQ_002", "SEQ_007">>],
    [id |-> "CL_03", sequence_count |-> 67, novelty_score |-> 30,
     dominant_taxa |-> "Bacteroidetes", avg_quality |-> 89,
     sequences |-> <<"SEQ_004">>],
    [id |-> "CL_04", sequence_count |-> 42, novelty_score |-> 90,
     dominant_taxa |-> "Novel", avg_quality |-> 92,
     sequences |-> <<"SEQ_005">>],
    [id |-> "CL_05", sequence_count |-> 38, novelty_score |-> 20,
     dominant_taxa |-> "Firmicutes", avg_quality |-> 87,
     sequences |-> <<"SEQ_006">>] >>

Range(s) == {s[i] : i \in 1..Len(s)}

\* Array.prototype.filter on the cluster field, as in ClusterDetail.
FilterByCluster(seqs, cid) == SelectSeq(seqs, LAMBDA seq : seq.cluster = cid)

\* mockClusters.find(cluster => cluster.id === cid): the first match, as a
\* sequence of length 0 (undefined) or 1.
FindCluster(cid) ==
    LET hits == SelectSeq(mockClusters, LAMBDA c : c.id = cid)
    IN  IF hits = <<>> THEN <<>> ELSE <<Head(hits)>>

\* -------------------------------------------------- ClusterDetail state

\* Bound on the fetches in flight at once (each lasts 300 ms).
MaxPending == 2

\* Route parameters the model navigates to: the cluster ids the sequences
\* name, and one id no data names.
RouteIds == {mockSequences[i].cluster : i \in 1..Len(mockSequences)}
                \cup {"CL_99"}
\* The router shows another page: ClusterDetail is not rendered.
NoRoute == "none"

VARIABLES
    routeId,           \* useParams().id of /cluster/:id, NoRoute before
    effectsDue,        \* a render happened whose effects have not run yet
    mounted,           \* the mount effects have run
    cluster,           \* useCluster: <<>> (null) or <<record>>
    clusterLoading,    \* useCluster: loading
    clusterError,      \* useCluster: error, "null" when null
    allSequences,      \* useSequences(): sequences
    sequencesLoading,  \* useSequences(): loading
    timers             \* delay(300) promises in flight, oldest first

dataVars == <<routeId, effectsDue, mounted, cluster, clusterLoading,
              clusterError, allSequences, sequencesLoading, timers>>

\* ------------------------------------------------- SequenceDetail state

\* Route parameters of /sequence/:id the model navigates to: the ids of the
\* mock sequences and one id no sequence has.
SequenceRouteIds == {mockSequences[i].id : i \in 1..Len(mockSequences)}
                        \cup {"SEQ_999"}

\* mockSequences.find(seq => seq.id === sid): the first match, as a sequence
\* of length 0 (undefined) or 1.
FindSequence(sid) ==
    LET hits == SelectSeq(mockSequences, LAMBDA s : s.id = sid)
    IN  IF hits = <<>> THEN <<>> ELSE <<Head(hits)>>

VARIABLES
    detailId,          \* useParams().id of /sequence/:id, NoRoute before
    detailEffectsDue,  \* a render happened whose effect has not run yet
    sequence,          \* useSequence: <<>> (null) or <<record>>
    sequenceLoading,   \* useSequence: loading
    sequenceError,     \* useSequence: error, "null" when null
    detailTimers       \* delay(300) promises of fetchSequence, oldest first

detailVars == <<detailId, detailEffectsDue, sequence, sequenceLoading,
                sequenceError, detailTimers>>

\* ------------------------------------------------------ router state

VARIABLES
    app,           \* the App component that is running, "none" before
    location,      \* location.pathname as its list of segments
    viaLink,       \* the location was set by following a rendered link
    isCollapsed,   \* Sidebar: useState(false)
    isMobileOpen   \* Sidebar: useState(false)

navVars == <<app, location, viaLink, isCollapsed, isMobileOpen>>

\* ------------------------------------------------------- Table state

VARIABLES
    tableMounted,   \* a Table element is mounted
    tableData,      \* the data prop
    pageSize,       \* the pageSize prop
    sortField,      \* useState(null), "null" when null
    sortDirection,  \* useState('asc')
    currentPage     \* useState(1)

tableVars == <<tableMounted, tableData, pageSize, sortField, sortDirection,
               currentPage>>

\* ---------------------------------------------- Sequences page state

VARIABLES
    listMounted,     \* the Sequences page is mounted
    searchValue,     \* Sequences: useState('')
    filters,         \* Sequences: useState({cluster, taxa, minQuality})
    sequences,       \* useSequences(filters): sequences
    listLoading,     \* useSequences(filters): loading
    listError,       \* useSequences(filters): error, "null" when null
    listEffectsDue,  \* a render changed the filters; the effect has not run
    listTimers,      \* filters of the delay(300) promises in flight
    listCompleted    \* some fetchSequences call has completed

listVars == <<listMounted, searchValue, filters, sequences, listLoading,
              listError, listEffectsDue, listTimers, listCompleted>>

\* The state of the pages other than SubmitData and ClusterDetail.
pageVars == <<detailVars, navVars, tableVars, listVars>>

\* Everything but the state of one page.
notDetail == <<wizardVars, dataVars, navVars, tableVars, listVars>>
notNav == <<wizardVars, dataVars, detailVars, tableVars, listVars>>
notTable == <<wizardVars, dataVars, detailVars, navVars, listVars>>
notList == <<wizardVars, dataVars, detailVars, navVars, tableVars>>

vars == <<wizardVars, dataVars, pageVars>>

NoErrors == [f \in ErrorFields |-> ""]

\* Missing with the location check of step 2 left out.
MissingSkipsLocation(step) ==
    CASE step = 1 -> {f \in {"researcherName", "email", "institution"} :
                        ~Truthy(formData[f])}
      [] step = 2 -> {f \in {"sampleName", "collectionDate"} :
                        ~Truthy(formData[f])}
      [] step = 3 -> {f \in {"sequenceFile", "targetGene"} :
                        ~Truthy(formData[f])}
      [] step = 4 -> IF permissions THEN {} ELSE {"permissions"}
      [] OTHER -> {}

\* The fields validateStep(step) reports as missing.
Missing(step) ==
    CASE step = 1 -> {f \in {"researcherName", "email", "institution"} :
                        ~Truthy(formData[f])}
      [] step = 2 -> {f \in {"sampleName", "collectionDate", "location"} :
                        ~Truthy(formData[f])}
      [] step = 3 -> {f \in {"sequenceFile", "targetGene"} :
                        ~Truthy(formData[f])}
      [] step = 4 -> IF permissions THEN {} ELSE {"permissions"}
      [] OTHER -> {}

\* The errors object validateStep(step) builds and stores.
NewErrors(step) ==
    [f \in ErrorFields |-> IF f \in Missing(step) THEN Msg(f) ELSE ""]

\* validateStep returning true although one field is missing.
validateStepLenient(step) == Cardinality(Missing(step)) <= 1

\* validateStep's return value.
validateStep(step) == Missing(step) = {}

Min(a, b) == IF a < b THEN a ELSE b
Max(a, b) == IF a > b THEN a ELSE b

Init ==
    /\ currentStep = 1
    /\ formData = [f \in TextFields \cup FileFields |->
                     IF f \in FileFields THEN "null" ELSE ""]
    /\ permissions = FALSE
    /\ errors = NoErrors
    /\ uploadProgress = 0
    /\ isSubmitting = FALSE
    /\ intervalOn = FALSE
    /\ timeoutOn = FALSE
    /\ elapsed = 0
    /\ routeId = NoRoute
    /\ effectsDue = FALSE
    /\ mounted = FALSE
    /\ cluster = <<>>
    /\ clusterLoading = FALSE
    /\ clusterError = "null"
    /\ allSequences = <<>>
    /\ sequencesLoading = FALSE
    /\ timers = <<>>
    /\ detailId = NoRoute
    /\ detailEffectsDue = FALSE
    /\ sequence = <<>>
    /\ sequenceLoading = FALSE
    /\ sequenceError = "null"
    /\ detailTimers = <<>>
    /\ app = "none"
    /\ location = <<>>
    /\ viaLink = FALSE
    /\ isCollapsed = FALSE
    /\ isMobileOpen = FALSE
    /\ tableMounted = FALSE
    /\ tableData = <<>>
    /\ pageSize = DefaultPageSize
    /\ sortField = "null"
    /\ sortDirection = "asc"
    /\ currentPage = 1
    /\ listMounted = FALSE
    /\ searchValue = ""
    /\ filters = [cluster |-> "", taxa |-> "", minQuality |-> ""]
    /\ sequences = <<>>
    /\ listLoading = FALSE
    /\ listError = "null"
    /\ listEffectsDue = FALSE
    /\ listTimers = <<>>
    /\ listCompleted = FALSE

\* onChange of a text input of the step on screen.
handleInputChange ==
    \E f \in TextFields, v \in TextValues :
        /\ StepOf(f) = currentStep
        /\ v # formData[f]
        /\ formData' = [formData EXCEPT ![f] = v]
        /\ errors' = IF f \in ErrorFields /\ errors[f] # ""
                       THEN [errors EXCEPT ![f] = ""]
                       ELSE errors
        /\ UNCHANGED <<currentStep, permissions, uploadProgress, isSubmitting,
                       intervalOn, timeoutOn, elapsed>>
        /\ UNCHANGED dataVars
        /\ UNCHANGED pageVars

\* onChange of the permissions checkbox (step 4).
handlePermissionsChange ==
    /\ currentStep = 4
    /\ permissions' = ~permissions
    /\ errors' = IF errors["permissions"] # ""
                   THEN [errors EXCEPT !["permissions"] = ""]
                   ELSE errors
    /\ UNCHANGED <<currentStep, formData, uploadProgress, isSubmitting,
                   intervalOn, timeoutOn, elapsed>>
    /\ UNCHANGED dataVars
    /\ UNCHANGED pageVars

\* onChange of a file input of the step on screen.
handleFileChange ==
    \E f \in FileFields, v \in {"file", "undefined"} :
        /\ StepOf(f) = currentStep
        /\ formData' = [formData EXCEPT ![f] = v]
        /\ UNCHANGED <<currentStep, permissions, errors, uploadProgress,
                       isSubmitting, intervalOn, timeoutOn, elapsed>>
        /\ UNCHANGED dataVars
        /\ UNCHANGED pageVars

\* The Next button, rendered while currentStep < 4.
nextStep ==
    /\ currentStep < LastStep
    /\ errors' = NewErrors(currentStep)
    /\ currentStep' = IF validateStep(currentStep)
                        THEN Min(currentStep + 1, LastStep)
                        ELSE currentStep
    /\ UNCHANGED <<formData, permissions, uploadProgress, isSubmitting,
                   intervalOn, timeoutOn, elapsed>>
    /\ UNCHANGED dataVars
    /\ UNCHANGED pageVars

\* The Previous button, disabled while currentStep = 1.
prevStep ==
    /\ currentStep # FirstStep
    /\ currentStep' = Max(currentStep - 1, FirstStep)
    /\ UNCHANGED <<formData, permissions, errors, uploadProgress,
                   isSubmitting, intervalOn, timeoutOn, elapsed>>
    /\ UNCHANGED dataVars
    /\ UNCHANGED pageVars

\* The Submit button, rendered at step 4 and disabled while isSubmitting.
handleSubmit ==
    /\ currentStep = LastStep
    /\ ~isSubmitting
    /\ errors' = NewErrors(4)
    /\ IF validateStep(4)
         THEN /\ isSubmitting' = TRUE
              /\ intervalOn' = TRUE
              /\ timeoutOn' = TRUE
              /\ elapsed' = 0
         ELSE UNCHANGED <<isSubmitting, intervalOn, timeoutOn, elapsed>>
    /\ UNCHANGED <<currentStep, formData, permissions, uploadProgress>>
    /\ UNCHANGED dataVars
    /\ UNCHANGED pageVars

\* TimerTick with `prev > 100` in place of `prev >= 100`.
TimerTickOffByOne ==
    /\ intervalOn \/ timeoutOn
    /\ elapsed < SubmitTimeoutTicks + MaxSlack
    /\ elapsed' = elapsed + 1
    /\ IF intervalOn
         THEN IF uploadProgress > ProgressFull
                THEN /\ intervalOn' = FALSE
                     /\ uploadProgress' = ProgressFull
                ELSE /\ intervalOn' = TRUE
                     /\ uploadProgress' = uploadProgress + ProgressIncrement
         ELSE UNCHANGED <<intervalOn, uploadProgress>>
    /\ IF timeoutOn /\ elapsed + 1 >= SubmitTimeoutTicks
         THEN /\ timeoutOn' = FALSE
              /\ isSubmitting' = FALSE
         ELSE UNCHANGED <<timeoutOn, isSubmitting>>
    /\ UNCHANGED <<currentStep, formData, permissions, errors>>
    /\ UNCHANGED dataVars
    /\ UNCHANGED pageVars

\* One 200 ms period passes: the interval callback runs if still scheduled,
\* and the 3000 ms timeout callback runs when its time has come.
TimerTick ==
    /\ intervalOn \/ timeoutOn
    /\ elapsed < SubmitTimeoutTicks + MaxSlack
    /\ elapsed' = elapsed + 1
    /\ IF intervalOn
         THEN IF uploadProgress >= ProgressFull
                THEN /\ intervalOn' = FALSE
                     /\ uploadProgress' = ProgressFull
                ELSE /\ intervalOn' = TRUE
                     /\ uploadProgress' = uploadProgress + ProgressIncrement
         ELSE UNCHANGED <<intervalOn, uploadProgress>>
    /\ IF timeoutOn /\ elapsed + 1 >= SubmitTimeoutTicks
         THEN /\ timeoutOn' = FALSE
              /\ isSubmitting' = FALSE
         ELSE UNCHANGED <<timeoutOn, isSubmitting>>
    /\ UNCHANGED <<currentStep, formData, permissions, errors>>
    /\ UNCHANGED dataVars
    /\ UNCHANGED pageVars

Next ==
    \/ handleInputChange
    \/ handlePermissionsChange
    \/ handleFileChange
    \/ nextStep
    \/ prevStep
    \/ handleSubmit
    \/ TimerTick

Spec == Init /\ [][Next]_vars

\* The timers of a submission are never starved: the browser runs a due
\* timer callback.
FairSpec == Spec /\ WF_vars(TimerTick)

TypeOK ==
    /\ currentStep \in FirstStep..LastStep
    /\ formData \in [TextFields \cup FileFields -> TextValues \cup FileValues]
    /\ permissions \in BOOLEAN
    /\ isSubmitting \in BOOLEAN
    /\ uploadProgress \in 0..ProgressFull

\* ------------------------------------------------ ClusterDetail actions

\* ClusterDetail: memberSequences.
memberSequences == FilterByCluster(allSequences, routeId)

\* What ClusterDetail renders: the loading overlay, the error card or the
\* cluster's details.
ClusterDetailView ==
    IF clusterLoading THEN "loading"
    ELSE IF clusterError # "null" \/ cluster = <<>> THEN "error"
    ELSE "detail"

\* The router renders ClusterDetail for /cluster/:id, or re-renders it with
\* a new :id; the effects of that render have yet to run.
Navigate ==
    \E id \in RouteIds :
        /\ id # routeId
        /\ ~effectsDue
        /\ Len(timers) + (IF mounted THEN 1 ELSE 2) <= MaxPending
        /\ routeId' = id
        /\ effectsDue' = TRUE
        /\ UNCHANGED <<mounted, cluster, clusterLoading, clusterError,
                       allSequences, sequencesLoading, timers>>
        /\ UNCHANGED wizardVars
        /\ UNCHANGED pageVars

\* The effects of the last render: useCluster's effect (deps [id]) starts a
\* fetch for the id, and on mount useSequences' effect starts its fetch.
RunEffects ==
    /\ effectsDue
    /\ effectsDue' = FALSE
    /\ mounted' = TRUE
    /\ clusterLoading' = TRUE
    /\ clusterError' = "null"
    /\ sequencesLoading' = IF mounted THEN sequencesLoading ELSE TRUE
    /\ timers' = timers
                   \o <<[hook |-> "useCluster", id |-> routeId]>>
                   \o (IF mounted THEN <<>>
                       ELSE <<[hook |-> "useSequences", id |-> ""]>>)
    /\ UNCHANGED <<routeId, cluster, allSequences>>
    /\ UNCHANGED wizardVars
    /\ UNCHANGED pageVars

\* The oldest delay(300) resolves in fetchCluster: find the record, store
\* it or the error, and clear loading.
fetchClusterDone ==
    /\ timers # <<>>
    /\ ~effectsDue
    /\ Head(timers).hook = "useCluster"
    /\ LET foundCluster == FindCluster(Head(timers).id)
       IN  IF foundCluster = <<>>
             THEN /\ clusterError' = "Cluster not found"
                  /\ UNCHANGED cluster
             ELSE /\ cluster' = foundCluster
                  /\ UNCHANGED clusterError
    /\ clusterLoading' = FALSE
    /\ timers' = Tail(timers)
    /\ UNCHANGED <<routeId, effectsDue, mounted, allSequences,
                   sequencesLoading>>
    /\ UNCHANGED wizardVars
    /\ UNCHANGED pageVars

\* The oldest delay(300) resolves in fetchSequences: ClusterDetail passes no
\* filters, so the whole of mockSequences is stored.
fetchSequencesDone ==
    /\ timers # <<>>
    /\ ~effectsDue
    /\ Head(timers).hook = "useSequences"
    /\ allSequences' = mockSequences
    /\ sequencesLoading' = FALSE
    /\ timers' = Tail(timers)
    /\ UNCHANGED <<routeId, effectsDue, mounted, cluster, clusterLoading,
                   clusterError>>
    /\ UNCHANGED wizardVars
    /\ UNCHANGED pageVars

DataNext ==
    \/ Navigate
    \/ RunEffects
    \/ fetchClusterDone
    \/ fetchSequencesDone

DataSpec == Init /\ [][DataNext]_vars

\* ---------------------------------------------- SequenceDetail actions

\* What SequenceDetail renders: the loading overlay, the error view
\* ("Error loading sequence: ...") or the sequence's details.
SequenceDetailView ==
    IF sequenceLoading THEN "loading"
    ELSE IF sequenceError # "null" \/ sequence = <<>> THEN "error"
    ELSE "detail"

\* The router renders SequenceDetail for /sequence/:id, or re-renders it
\* with a new :id; the effect of that render has yet to run.
OpenSequence ==
    \E id \in SequenceRouteIds :
        /\ id # detailId
        /\ ~detailEffectsDue
        /\ Len(detailTimers) < MaxPending
        /\ detailId' = id
        /\ detailEffectsDue' = TRUE
        /\ UNCHANGED <<sequence, sequenceLoading, sequenceError, detailTimers>>
        /\ UNCHANGED notDetail

\* useSequence's effect (deps [id]): start a fetch for the id.
SequenceEffect ==
    /\ detailEffectsDue
    /\ detailEffectsDue' = FALSE
    /\ sequenceLoading' = TRUE
    /\ sequenceError' = "null"
    /\ detailTimers' = Append(detailTimers, detailId)
    /\ UNCHANGED <<detailId, sequence>>
    /\ UNCHANGED notDetail

\* The oldest delay(300) resolves in fetchSequence: find the record, store
\* it or the error message, and clear loading.
fetchSequenceDone ==
    /\ detailTimers # <<>>
    /\ ~detailEffectsDue
    /\ LET foundSequence == FindSequence(Head(detailTimers))
       IN  IF foundSequence = <<>>
             THEN /\ sequenceError' = "Sequence not found"
                  /\ UNCHANGED sequence
             ELSE /\ sequence' = foundSequence
                  /\ UNCHANGED sequenceError
    /\ sequenceLoading' = FALSE
    /\ detailTimers' = Tail(detailTimers)
    /\ UNCHANGED <<detailId, detailEffectsDue>>
    /\ UNCHANGED notDetail

DetailNext ==
    \/ OpenSequence
    \/ SequenceEffect
    \/ fetchSequenceDone

DetailSpec == Init /\ [][DetailNext]_vars

\* -------------------------------------------------------------- routing

\* The two App components of the repository: one declares the analysis
\* pages, the other the search and submit pages.
Apps == {"AnalysisApp", "SearchApp"}

\* <Routes> of the App with Sequences, Clusters and Metrics.
AnalysisRoutes == <<
    [path |-> <<>>, element |-> "RedirectRoot"],
    [path |-> <<"dashboard">>, element |-> "Dashboard"],
    [path |-> <<"sequences">>, element |-> "Sequences"],
    [path |-> <<"sequence", ":id">>, element |-> "SequenceDetail"],
    [path |-> <<"clusters">>, element |-> "Clusters"],
    [path |-> <<"cluster", ":id">>, element |-> "ClusterDetail"],
    [path |-> <<"metrics">>, element |-> "Metrics"],
    [path |-> <<"settings">>, element |-> "Settings"],
    [path |-> <<"*">>, element |-> "RedirectCatchAll"] >>

\* <Routes> of the App with SearchData and SubmitData.
SearchRoutes == <<
    [path |-> <<>>, element |-> "RedirectRoot"],
    [path |-> <<"dashboard">>, element |-> "Dashboard"],
    [path |-> <<"search">>, element |-> "SearchData"],
    [path |-> <<"submit">>, element |-> "SubmitData"],
    [path |-> <<"settings">>, element |-> "Settings"],
    [path |-> <<"*">>, element |-> "RedirectCatchAll"] >>

RoutesOf(a) == IF a = "AnalysisApp" THEN AnalysisRoutes ELSE SearchRoutes

\* A route path matches a location: "*" matches anything, a ":id" segment
\* matches any segment, any other segment matches itself.
PathMatches(path, loc) ==
    \/ path = <<"*">>
    \/ /\ Len(path) = Len(loc)
       /\ \A i \in 1..Len(path) : path[i] = ":id" \/ path[i] = loc[i]

\* The element <Routes> renders for a location.
ElementAt(a, loc) ==
    Head(SelectSeq(RoutesOf(a), LAMBDA r : PathMatches(r.path, loc))).element

\* The <Navigate to="/dashboard" replace /> elements.
IsRedirect(el) == el \in {"RedirectRoot", "RedirectCatchAll"}

\* Sidebar: navigation[].href.
SidebarLinks == {<<"dashboard">>, <<"sequences">>, <<"clusters">>,
                 <<"metrics">>, <<"settings">>}

\* The <Link to=...> targets a page renders besides the Sidebar's.
PageLinks(el, loc) ==
    CASE el = "Dashboard" -> {<<"search">>, <<"submit">>}
      [] el = "Sequences" ->
            {<<"sequence", mockSequences[i].id>> : i \in 1..Len(mockSequences)}
            \cup {<<"cluster", mockSequences[i].cluster>> :
                    i \in 1..Len(mockSequences)}
      [] el = "SequenceDetail" ->
            {<<"sequences">>}
            \cup {<<"cluster", s.cluster>> : s \in Range(FindSequence(loc[2]))}
      [] el = "Clusters" ->
            {<<"cluster", mockClusters[i].id>> : i \in 1..Len(mockClusters)}
            \cup UNION {{<<"sequence", sid>> :
                            sid \in Range(mockClusters[i].sequences)} :
                        i \in 1..Len(mockClusters)}
      [] el = "ClusterDetail" ->
            {<<"clusters">>}
            \cup {<<"sequence", s.id>> :
                    s \in Range(FilterByCluster(mockSequences, loc[2]))}
      [] OTHER -> {}

\* The browser opens the application at "/".
StartApp ==
    /\ app = "none"
    /\ \E a \in Apps : app' = a
    /\ location' = <<>>
    /\ UNCHANGED <<viaLink, isCollapsed, isMobileOpen>>
    /\ UNCHANGED notNav

\* A <Navigate to="/dashboard" replace /> element is rendered.
RedirectToDashboard ==
    /\ app # "none"
    /\ IsRedirect(ElementAt(app, location))
    /\ location' = <<"dashboard">>
    /\ viaLink' = FALSE
    /\ UNCHANGED <<app, isCollapsed, isMobileOpen>>
    /\ UNCHANGED notNav

\* The user follows a link to href; a page of another route is mounted
\* afresh with its Layout and Sidebar.
Follow(href, mobileAfter) ==
    /\ app # "none"
    /\ ~IsRedirect(ElementAt(app, location))
    /\ location' = href
    /\ viaLink' = TRUE
    /\ IF ElementAt(app, href) = ElementAt(app, location)
         THEN /\ isCollapsed' = isCollapsed
              /\ isMobileOpen' = mobileAfter
         ELSE /\ isCollapsed' = FALSE
              /\ isMobileOpen' = FALSE
    /\ UNCHANGED app
    /\ UNCHANGED notNav

\* A Sidebar item: <Link to={item.href} onClick={() => setIsMobileOpen(false)}>.
FollowSidebarLink ==
    \E href \in SidebarLinks : Follow(href, FALSE)

\* A <Link> in the body of the page on screen.
FollowPageLink ==
    \E href \in PageLinks(ElementAt(app, location), location) :
        Follow(href, isMobileOpen)

\* Sidebar: the collapse button.
ToggleCollapsed ==
    /\ app # "none"
    /\ ~IsRedirect(ElementAt(app, location))
    /\ isCollapsed' = ~isCollapsed
    /\ UNCHANGED <<app, location, viaLink, isMobileOpen>>
    /\ UNCHANGED notNav

\* Sidebar: the mobile menu button, or the overlay that closes the menu.
ToggleMobileOpen ==
    /\ app # "none"
    /\ ~IsRedirect(ElementAt(app, location))
    /\ isMobileOpen' = ~isMobileOpen
    /\ UNCHANGED <<app, location, viaLink, isCollapsed>>
    /\ UNCHANGED notNav

NavNext ==
    \/ StartApp
    \/ RedirectToDashboard
    \/ FollowSidebarLink
    \/ FollowPageLink
    \/ ToggleCollapsed
    \/ ToggleMobileOpen

NavSpec == Init /\ [][NavNext]_vars

\* ---------------------------------------------------------------- Table

\* The UTF-16 code units of the strings of the mock data and of the search
\* box inputs.
Chars(s) ==
    CASE s = "SEQ_001" -> <<83, 69, 81, 95, 48, 48, 49>>
      [] s = "SEQ_002" -> <<83, 69, 81, 95, 48, 48, 50>>
      [] s = "SEQ_003" -> <<83, 69, 81, 95, 48, 48, 51>>
      [] s = "SEQ_004" -> <<83, 69, 81, 95, 48, 48, 52>>
      [] s = "SEQ_005" -> <<83, 69, 81, 95, 48, 48, 53>>
      [] s = "SEQ_006" -> <<83, 69, 81, 95, 48, 48, 54>>
      [] s = "SEQ_007" -> <<83, 69, 81, 95, 48, 48, 55>>
      [] s = "SEQ_008" -> <<83, 69, 81, 95, 48, 48, 56>>
      [] s = "SEQ_009" -> <<83, 69, 81, 95, 48, 48, 57>>
      [] s = "SEQ_010" -> <<83, 69, 81, 95, 48, 49, 48>>
      [] s = "CL_01" -> <<67, 76, 95, 48, 49>>
      [] s = "CL_02" -> <<67, 76, 95, 48, 50>>
      [] s = "CL_03" -> <<67, 76, 95, 48, 51>>
      [] s = "CL_04" -> <<67, 76, 95, 48, 52>>
      [] s = "CL_05" -> <<67, 76, 95, 48, 53>>
      [] s = "CL_06" -> <<67, 76, 95, 48, 54>>
      [] s = "CL_07" -> <<67, 76, 95, 48, 55>>
      [] s = "CL_08" -> <<67, 76, 95, 48, 56>>
      [] s = "Proteobacteria" -> <<80, 114, 111, 116, 101, 111, 98, 97, 99, 116, 101, 114, 105, 97>>
      [] s = "Novel" -> <<78, 111, 118, 101, 108>>
      [] s = "Bacteroidetes" -> <<66, 97, 99, 116, 101, 114, 111, 105, 100, 101, 116, 101, 115>>
      [] s = "Firmicutes" -> <<70, 105, 114, 109, 105, 99, 117, 116, 101, 115>>
      [] s = "Actinobacteria" -> <<65, 99, 116, 105, 110, 111, 98, 97, 99, 116, 101, 114, 105, 97>>
      [] s = "Cyanobacteria" -> <<67, 121, 97, 110, 111, 98, 97, 99, 116, 101, 114, 105, 97>>
      [] s = "" -> <<>>
      [] s = "seq_00" -> <<115, 101, 113, 95, 48, 48>>
      [] s = "NOVEL" -> <<78, 79, 86, 69, 76>>
      [] s = "cl_02" -> <<99, 108, 95, 48, 50>>
      [] s = "95" -> <<57, 53>>
      [] s = "90" -> <<57, 48>>
      [] s = "85" -> <<56, 53>>
      [] s = "80" -> <<56, 48>>
      [] s = "bacter" -> <<98, 97, 99, 116, 101, 114>>

\* String.prototype.toLowerCase on code units.
toLowerCase(cs) ==
    [i \in 1..Len(cs) |-> IF cs[i] \in 65..90 THEN cs[i] + 32 ELSE cs[i]]

\* The < of JavaScript on two strings: lexicographic on code units.
LexLess(s, u) ==
    \E i \in 1..(Min(Len(s), Len(u)) + 1) :
        /\ \A j \in 1..(i - 1) : s[j] = u[j]
        /\ \/ i > Len(s) /\ i <= Len(u)
           \/ i <= Len(s) /\ i <= Len(u) /\ s[i] < u[i]

\* typeof aVal === 'string' for the columns of the mock records.
StringFields == {"id", "cluster", "taxa"}
SortFields == {"id", "cluster", "length", "quality", "taxa", "novelty_score"}

\* aVal < bVal in the comparator of sortedData, strings lower-cased first.
RowLess(a, b, field) ==
    IF field \in StringFields
      THEN LexLess(toLowerCase(Chars(a[field])), toLowerCase(Chars(b[field])))
      ELSE a[field] < b[field]

\* The comparator handed to Array.prototype.sort.
compare(a, b, field, direction) ==
    IF RowLess(a, b, field) THEN (IF direction = "asc" THEN -1 ELSE 1)
    ELSE IF RowLess(b, a, field) THEN (IF direction = "asc" THEN 1 ELSE -1)
    ELSE 0

\* Array.prototype.sort is stable: x goes before the first row it precedes.
RECURSIVE InsertSorted(_, _, _, _)
InsertSorted(x, s, field, direction) ==
    IF s = <<>> THEN <<x>>
    ELSE IF compare(x, Head(s), field, direction) < 0 THEN <<x>> \o s
    ELSE <<Head(s)>> \o InsertSorted(x, Tail(s), field, direction)

RECURSIVE SortCopy(_, _, _)
SortCopy(s, field, direction) ==
    IF s = <<>> THEN <<>>
    ELSE InsertSorted(s[Len(s)], SortCopy(SubSeq(s, 1, Len(s) - 1),
                                          field, direction),
                      field, direction)

\* Array.prototype.slice(start, end) with 0-based, clamped indices.
Slice(s, start, end) == SubSeq(s, Min(start, Len(s)) + 1, Min(end, Len(s)))

\* Math.ceil(n / d) for n >= 0, d >= 1.
CeilDiv(n, d) == (n + d - 1) \div d

\* Bounds of the Table model: rows to choose from, rows in a data prop,
\* values of the pageSize prop.
RowChoices == 4
MaxRows == 4
MaxPageSize == 3

RECURSIVE SeqsUpTo(_, _)
SeqsUpTo(S, n) ==
    IF n = 0 THEN {<<>>}
    ELSE LET shorter == SeqsUpTo(S, n - 1)
         IN  shorter \cup UNION {{Append(s, x) : x \in S \ Range(s)} :
                                    s \in shorter}

\* The data props: arrays of rows of the mock data, each row (a record with
\* its own id) at most once.
TableRows == {mockSequences[i] : i \in 1..RowChoices}
DataArrays == SeqsUpTo(TableRows, MaxRows)

\* sortedData: the prop itself without a sort field, else a sorted copy.
sortedData ==
    IF sortField = "null" THEN tableData
    ELSE SortCopy(tableData, sortField, sortDirection)

\* paginatedData for a value of currentPage (pagination is on).
paginatedDataOffByOne(page) ==
    Slice(sortedData, (page - 1) * pageSize + 1,
          (page - 1) * pageSize + pageSize)
paginatedDataAt(page) ==
    Slice(sortedData, (page - 1) * pageSize, (page - 1) * pageSize + pageSize)

paginatedData == paginatedDataAt(currentPage)

totalPages == CeilDiv(Len(tableData), pageSize)

\* The pagination controls are rendered.
ControlsShown == tableMounted /\ totalPages > 1

\* A page renders <Table data=... pageSize=...>.
MountTable ==
    /\ ~tableMounted
    /\ tableMounted' = TRUE
    /\ tableData' \in DataArrays
    /\ pageSize' \in 1..MaxPageSize
    /\ sortField' = "null"
    /\ sortDirection' = "asc"
    /\ currentPage' = 1
    /\ UNCHANGED notTable

\* The parent re-renders the mounted Table with another data prop.
ChangeData ==
    /\ tableMounted
    /\ tableData' \in DataArrays \ {tableData}
    /\ UNCHANGED <<tableMounted, pageSize, sortField, sortDirection,
                   currentPage>>
    /\ UNCHANGED notTable

\* handleSort(field): a click on a column header.
handleSort ==
    /\ tableMounted
    /\ \E field \in SortFields :
        IF sortField = field
          THEN /\ sortDirection' = IF sortDirection = "asc" THEN "desc"
                                   ELSE "asc"
               /\ UNCHANGED sortField
          ELSE /\ sortField' = field
               /\ sortDirection' = "asc"
    /\ UNCHANGED <<tableMounted, tableData, pageSize, currentPage>>
    /\ UNCHANGED notTable

\* The previous-page button.
PreviousPage ==
    /\ ControlsShown
    /\ currentPage # 1
    /\ currentPage' = Max(1, currentPage - 1)
    /\ UNCHANGED <<tableMounted, tableData, pageSize, sortField,
                   sortDirection>>
    /\ UNCHANGED notTable

\* One of the numbered page buttons.
GoToPage ==
    /\ ControlsShown
    /\ \E i \in 0..(totalPages - 1) : currentPage' = i + 1
    /\ UNCHANGED <<tableMounted, tableData, pageSize, sortField,
                   sortDirection>>
    /\ UNCHANGED notTable

\* The next-page button.
NextPage ==
    /\ ControlsShown
    /\ currentPage # totalPages
    /\ currentPage' = Min(totalPages, currentPage + 1)
    /\ UNCHANGED <<tableMounted, tableData, pageSize, sortField,
                   sortDirection>>
    /\ UNCHANGED notTable

TableNext ==
    \/ MountTable
    \/ ChangeData
    \/ handleSort
    \/ PreviousPage
    \/ GoToPage
    \/ NextPage

TableSpec == Init /\ [][TableNext]_vars

\* ------------------------------------------------------------ Sequences

\* What the user types into the search box and picks in the three selects.
SearchInputs == {"", "NOVEL", "bacter"}
ClusterInputs == {"", "CL_02"}
TaxaInputs == {"", "Novel"}
QualityInputs == {"", "95", "90"}

\* String.prototype.includes on code units.
includes(hay, needle) ==
    \E k \in 0..(Len(hay) - Len(needle)) :
        SubSeq(hay, k + 1, k + Len(needle)) = needle

\* The number a threshold string is converted to by >=.
ToNumber(s) ==
    CASE s = "95" -> 95
      [] s = "90" -> 90
      [] s = "85" -> 85
      [] s = "80" -> 80

\* The predicate of the search filter; search is already lower-cased.
SearchHit(seq, search) ==
    \/ includes(toLowerCase(Chars(seq.id)), search)
    \/ includes(toLowerCase(Chars(seq.cluster)), search)
    \/ includes(toLowerCase(Chars(seq.taxa)), search)

\* The predicate of the minQuality filter.
QualityHitStrict(seq, minQuality) == seq.quality > ToNumber(minQuality)
QualityHit(seq, minQuality) == seq.quality >= ToNumber(minQuality)

\* fetchSequences after its delay: a copy of mockSequences narrowed by each
\* truthy filter in turn.
fetchSequences(f) ==
    LET search == toLowerCase(Chars(f.search))
        bySearch ==
            IF f.search # ""
              THEN SelectSeq(mockSequences, LAMBDA seq : SearchHit(seq, search))
              ELSE mockSequences
        byCluster ==
            IF f.cluster # ""
              THEN SelectSeq(bySearch, LAMBDA seq : seq.cluster = f.cluster)
              ELSE bySearch
        byTaxa ==
            IF f.taxa # ""
              THEN SelectSeq(byCluster, LAMBDA seq : seq.taxa = f.taxa)
              ELSE byCluster
    IN  IF f.minQuality # ""
          THEN SelectSeq(byTaxa, LAMBDA seq : QualityHit(seq, f.minQuality))
          ELSE byTaxa

\* The argument of useSequences in the current render.
hookFilters ==
    [search |-> searchValue, cluster |-> filters.cluster,
     taxa |-> filters.taxa, minQuality |-> filters.minQuality]

\* uniqueClusters, uniqueTaxa and qualityRanges: the options on offer.
uniqueClusters == {sequences[i].cluster : i \in 1..Len(sequences)}
uniqueTaxa == {sequences[i].taxa : i \in 1..Len(sequences)}
qualityRanges == {"", "95", "90", "85", "80"}

\* The page accepts input: passive effects have run, the error view is not
\* shown, and the number of fetches in flight is within the bound.
InputReady ==
    /\ listMounted
    /\ ~listEffectsDue
    /\ listError = "null"
    /\ Len(listTimers) < MaxPending

\* The route /sequences mounts the page; the hook's effect is due.
MountSequences ==
    /\ ~listMounted
    /\ listMounted' = TRUE
    /\ listEffectsDue' = TRUE
    /\ UNCHANGED <<searchValue, filters, sequences, listLoading, listError,
                   listTimers, listCompleted>>
    /\ UNCHANGED notList

\* handleSearchChange: a new dependency value makes the effect due.
handleSearchChange ==
    /\ InputReady
    /\ \E v \in SearchInputs \ {searchValue} : searchValue' = v
    /\ listEffectsDue' = TRUE
    /\ UNCHANGED <<listMounted, filters, sequences, listLoading, listError,
                   listTimers, listCompleted>>
    /\ UNCHANGED notList

\* handleFilterChange(key): one of the options of the select is picked.
handleFilterChange ==
    /\ InputReady
    /\ \/ \E v \in (ClusterInputs \cap ({""} \cup uniqueClusters))
                        \ {filters.cluster} :
            filters' = [filters EXCEPT !.cluster = v]
       \/ \E v \in (TaxaInputs \cap ({""} \cup uniqueTaxa)) \ {filters.taxa} :
            filters' = [filters EXCEPT !.taxa = v]
       \/ \E v \in (QualityInputs \cap qualityRanges) \ {filters.minQuality} :
            filters' = [filters EXCEPT !.minQuality = v]
    /\ listEffectsDue' = TRUE
    /\ UNCHANGED <<listMounted, searchValue, sequences, listLoading,
                   listError, listTimers, listCompleted>>
    /\ UNCHANGED notList

\* The effect of useSequences up to its await: the fetch is in flight with
\* the filters of this render.
SequencesEffect ==
    /\ listMounted
    /\ listEffectsDue
    /\ listEffectsDue' = FALSE
    /\ listLoading' = TRUE
    /\ listError' = "null"
    /\ listTimers' = Append(listTimers, hookFilters)
    /\ UNCHANGED <<listMounted, searchValue, filters, sequences,
                   listCompleted>>
    /\ UNCHANGED notList

\* The oldest delay(300) resolves: its fetch stores its result and clears
\* loading.
filteredFetchDone ==
    /\ listTimers # <<>>
    /\ sequences' = fetchSequences(Head(listTimers))
    /\ listLoading' = FALSE
    /\ listTimers' = Tail(listTimers)
    /\ listCompleted' = TRUE
    /\ UNCHANGED <<listMounted, searchValue, filters, listError,
                   listEffectsDue>>
    /\ UNCHANGED notList

ListNext ==
    \/ MountSequences
    \/ handleSearchChange
    \/ handleFilterChange
    \/ SequencesEffect
    \/ filteredFetchDone

ListSpec == Init /\ [][ListNext]_vars

\* ------------------------------------------------------------ claim C13

\* The cluster records whose id is cid.
ClusterRecords(cid) == {j \in 1..Len(mockClusters) : mockClusters[j].id = cid}

\* C13: cluster membership partitions the served sequences: every sequence
\* the dashboard has loaded names, by its cluster id, exactly one existing
\* cluster record, and that record's member list contains the sequence.
C13_MembershipPartitions ==
    \A i \in 1..Len(allSequences) :
        LET seq == allSequences[i]
        IN  /\ Cardinality(ClusterRecords(seq.cluster)) = 1
            /\ \A j \in ClusterRecords(seq.cluster) :
                   seq.id \in Range(mockClusters[j].sequences)

\* ------------------------------------------------- claims C22, C23, C29

\* The required fields of a wizard step, as the claims list them.
ReqOfStep(k) ==
    CASE k = 1 -> {"researcherName", "email", "institution"}
      [] k = 2 -> {"sampleName", "collectionDate", "location"}
      [] k = 3 -> {"sequenceFile", "targetGene"}
      [] OTHER -> {}

\* A required field holds a non-empty text or a selected file.
Filled(f) == formData[f] \notin {"", "null", "undefined"}

\* The required fields of step k that are not filled.
ReqMissing(k) == {f \in ReqOfStep(k) : ~Filled(f)}

EarlierStepsFilled ==
    \A k \in FirstStep..LastStep :
        currentStep = k =>
            \A j \in FirstStep..(k - 1) : ReqMissing(j) = {}

\* C22: at step k every required field of each earlier step is filled, and
\* a submission starts only with all required fields of steps 1-3 filled
\* and permissions checked.
C22_EarlierStepsFilled ==
    /\ []EarlierStepsFilled
    /\ [][(~isSubmitting /\ isSubmitting') =>
            /\ \A j \in 1..3 : ReqMissing(j) = {}
            /\ permissions]_vars

\* A submission is running at the last step.
C22_Witness == currentStep = LastStep /\ isSubmitting

\* C23: currentStep stays in 1..4; it rises only by one and only when the
\* step has no missing required field; a Next click that finds missing
\* fields leaves the step and stores a message for exactly those fields;
\* a Previous click lowers the step by one, not below 1, and validates
\* nothing.
C23_StepNavigation ==
    /\ [](currentStep \in 1..4)
    /\ [][currentStep' > currentStep =>
            /\ currentStep' = currentStep + 1
            /\ ReqMissing(currentStep) = {}]_vars
    /\ [][currentStep' < currentStep => currentStep' = currentStep - 1]_vars
    /\ [][nextStep =>
            /\ currentStep' = IF ReqMissing(currentStep) = {}
                                THEN currentStep + 1 ELSE currentStep
            /\ \A f \in ErrorFields :
                   errors'[f] # "" <=> f \in ReqMissing(currentStep)]_vars
    /\ [][prevStep =>
            /\ currentStep' = currentStep - 1
            /\ currentStep' >= 1
            /\ errors' = errors]_vars

\* A Next click at step 2 was refused and left its messages.
C23_Witness ==
    /\ currentStep = 2
    /\ errors["sampleName"] # ""
    /\ errors["location"] # ""

C26_ErrorOnlyWhenNotFound ==
    (detailId # NoRoute /\ FindSequence(detailId) # <<>>) =>
        \/ SequenceDetailView = "loading"
        \/ /\ SequenceDetailView = "detail"
           /\ sequence[1].id = detailId

\* ------------------------------------------------------------ claim C27

\* C27: every rendered navigation link targets a declared route: a location
\* reached by following a link is never handled by the catch-all redirect.
C27_LinksTargetRoutes ==
    (app # "none" /\ viaLink) =>
        ElementAt(app, location) # "RedirectCatchAll"

\* ------------------------------------------------------------ claim C25

\* C25: whatever page buttons and headers were clicked and however the data
\* prop changed, currentPage lies between 1 and max(1, ceil(n / pageSize)).
C25_CurrentPageInRange ==
    tableMounted =>
        /\ 1 <= currentPage
        /\ currentPage <= Max(1, CeilDiv(Len(tableData), pageSize))

\* ------------------------------------------------------------ claim C28

RECURSIVE ConcatPages(_)
ConcatPages(p) ==
    IF p = 0 THEN <<>> ELSE ConcatPages(p - 1) \o paginatedDataAt(p)

Occurrences(s, x) == Cardinality({i \in 1..Len(s) : s[i] = x})

\* C28: the pages 1..ceil(n / pageSize) are consecutive, disjoint slices of
\* at most pageSize rows that together hold every row of the sorted data
\* exactly once; the sorted data is a rearrangement of the data prop, and a
\* sort click leaves the data prop as it was.
C28_PagesPartitionSortedData ==
    /\ [](tableMounted =>
            /\ ConcatPages(totalPages) = sortedData
            /\ \A p \in 1..totalPages :
                /\ Len(paginatedDataAt(p)) <= pageSize
                /\ Len(paginatedDataAt(p)) >= 1
            /\ Len(sortedData) = Len(tableData)
            /\ \A x \in TableRows :
                Occurrences(sortedData, x) = Occurrences(tableData, x))
    /\ [][handleSort => tableData' = tableData]_vars

C28_Witness ==
    /\ tableMounted
    /\ sortField = "taxa"
    /\ sortDirection = "desc"
    /\ sortedData # tableData
    /\ totalPages = 2
    /\ currentPage = totalPages
    /\ Len(paginatedData) = 1
    /\ pageSize = 2

\* ------------------------------------------------------------ claim C24

\* C24: whenever a fetch has completed and the hook reports loading = false
\* with error = null, the list is the mock data filtered by the filters of
\* the current render, never the result of a fetch started for older ones.
C24_SettledListIsCurrent ==
    (listCompleted /\ ~listLoading /\ listError = "null" /\ ~listEffectsDue)
        => sequences = fetchSequences(hookFilters)

\* ------------------------------------------------------------ claim C30

\* Case-insensitive substring: some window of the text equals the query
\* letter for letter once both are lower-cased.
ContainsIgnoringCase(text, query) ==
    \E k \in 0..(Len(text) - Len(query)) :
        \A i \in 1..Len(query) :
            toLowerCase(text)[k + i] = toLowerCase(query)[i]

\* A mock sequence satisfies every active filter at once.
SatisfiesAll(seq) ==
    /\ searchValue = ""
        \/ ContainsIgnoringCase(Chars(seq.id), Chars(searchValue))
        \/ ContainsIgnoringCase(Chars(seq.cluster), Chars(searchValue))
        \/ ContainsIgnoringCase(Chars(seq.taxa), Chars(searchValue))
    /\ filters.cluster = "" \/ seq.cluster = filters.cluster
    /\ filters.taxa = "" \/ seq.taxa = filters.taxa
    /\ filters.minQuality = ""
        \/ \E q \in 0..100 : /\ Chars(filters.minQuality) =
                                  <<48 + (q \div 10), 48 + (q % 10)>>
                             /\ seq.quality >= q

\* C30: once a fetch has completed and none is pending, the list holds, in
\* their original order, exactly the mock sequences that satisfy every
\* active filter; an empty filter value imposes no constraint.
C30_ListIsConjunctionOfFilters ==
    (listCompleted /\ listTimers = <<>> /\ ~listEffectsDue) =>
        sequences = SelectSeq(mockSequences, SatisfiesAll)

C30_Witness ==
    /\ listCompleted
    /\ listTimers = <<>>
    /\ ~listEffectsDue
    /\ searchValue = "NOVEL"
    /\ filters.minQuality = "95"
    /\ filters.cluster = ""
    /\ Len(sequences) = 1
    /\ sequences[1].id = "SEQ_002"

====
